---- MODULE Spec2Model ----
(***************************************************************************)
(* A model of src/data_generator.py: generate_customer_churn_data, the     *)
(* single pass that draws the feature columns, derives MonthlyCharges,     *)
(* TotalCharges and Churn, assembles the table and writes it as CSV.       *)
(*                                                                         *)
(* Units.  Money is kept in thousandths (mills) so that rounding to two    *)
(* decimals, np.round(x, 2), is a real operation: a value has at most two  *)
(* decimals iff it is a multiple of 10.  Probabilities and the uniform     *)
(* [0,1) draw are kept in hundredths.                                      *)
(*                                                                         *)
(* Randomness.  Each numpy draw returns any array over a small set of      *)
(* values inside the distribution's support; the variable rng holds these  *)
(* sets, and drawn records the outcomes the code keeps in no local.        *)
(*                                                                         *)
(* Paths.  A path is the sequence of its components: "out/test.csv" is     *)
(* <<"out", "test.csv">>, the empty string is <<>>.                        *)
(***************************************************************************)
EXTENDS Integers, Sequences, FiniteSets, TLC

VARIABLES
    num_samples,   \* the argument: [kind |-> "int" | "float", val |-> Int]
    output_path,   \* the argument / local: a path, or NonePath
    rng,           \* for each draw, the values it may return
    drawn,         \* history: the outcomes of the draws used in place
    arr,           \* the local arrays, one field per local variable
    data,          \* the DataFrame
    fs,            \* the file system: [dirs, files, unwritable]
    log,           \* the lines given to logging.info
    pc,            \* the statement to execute next
    error,         \* the exception that ended the call, or "none"
    writes,        \* history: how many times a file was written
    fs0            \* history: the file system when the call started

vars == <<num_samples, output_path, rng, drawn, arr, data, fs, log, pc, error, writes, fs0>>

(***************************************************************************)
(* Bounds of the model.                                                    *)
(***************************************************************************)
MaxSamples == 2

(***************************************************************************)
(* Program constants.                                                      *)
(***************************************************************************)
TenureLow == 1
TenureHigh == 72
MultipleLinesWidth == 16
BaseChargeLow == 20000
BaseChargeHigh == 120000
FiberAdjLow == 10000
FiberAdjHigh == 30000
NoInternetAdjLow == 10000
NoInternetAdjHigh == 20000
MonthToMonthAdj == 30
LowTenureLimit == 12
LowTenureAdj == 20
HighChargeLimit == 80000
HighChargeAdj == 15
NoTechSupportAdj == 20
TwoYearAdj == 30

GenderValues == <<"Male", "Female">>
SeniorValues == <<0, 1>>
YesNo == <<"Yes", "No">>
NoYes == <<"No", "Yes">>
InternetValues == <<"DSL", "Fiber optic", "No">>
AddOnValues == <<"No", "Yes", "No internet service">>
ContractValues == <<"Month-to-month", "One year", "Two year">>
PaymentValues == <<"Electronic check", "Mailed check",
                   "Bank transfer (automatic)", "Credit card (automatic)">>

Range(s) == {s[i] : i \in DOMAIN s}

(***************************************************************************)
(* numpy helpers.                                                          *)
(***************************************************************************)
\* SizeError without the check for a negative size.
SizeErrorLenient(n) == IF n.kind # "int" THEN "TypeError" ELSE "none"

\* The exception a numpy draw raises for its size argument, or "none".
SizeError(n) ==
    IF n.kind # "int" THEN "TypeError"
    ELSE IF n.val < 0 THEN "ValueError"
    ELSE "none"

\* np.random.<draw>(..., size): the arrays of `size` elements it may return.
Draw(values, size) == [1..size -> values]

\* (mask).sum()
CountTrue(mask) == Cardinality({i \in DOMAIN mask : mask[i]})

\* The position of element i among the selected elements of mask.
Rank(mask, i) == Cardinality({j \in 1..i : mask[j]})

\* a == v, a < v, a > v on an array
MaskEq(a, v) == [i \in DOMAIN a |-> a[i] = v]
MaskLt(a, v) == [i \in DOMAIN a |-> a[i] < v]
MaskGt(a, v) == [i \in DOMAIN a |-> a[i] > v]

\* np.zeros(n)
Zeros(n) == [i \in 1..n |-> 0]

\* AddWhere with the mask ignored.
AddWhereAll(a, mask, c) == [i \in DOMAIN a |-> a[i] + c]

\* a[mask] += c  for a scalar c
AddWhere(a, mask, c) == [i \in DOMAIN a |-> IF mask[i] THEN a[i] + c ELSE a[i]]

\* MaskedAdd with one value, the first, given to every selected element.
MaskedAddFirst(a, mask, vals) ==
    [i \in DOMAIN a |-> IF mask[i] THEN a[i] + vals[1] ELSE a[i]]

\* a[mask] += vals  for an array vals with one element per selected element
MaskedAdd(a, mask, vals) ==
    [i \in DOMAIN a |-> IF mask[i] THEN a[i] + vals[Rank(mask, i)] ELSE a[i]]

\* a[mask] -= vals
MaskedSub(a, mask, vals) ==
    [i \in DOMAIN a |-> IF mask[i] THEN a[i] - vals[Rank(mask, i)] ELSE a[i]]

\* np.round(x, 2) of a value in mills: the nearest multiple of 10, ties to
\* the even hundredth.
Round2(x) ==
    LET q == x \div 10
        r == x % 10
    IN  IF r < 5 THEN 10 * q
        ELSE IF r > 5 THEN 10 * (q + 1)
        ELSE IF q % 2 = 0 THEN 10 * q ELSE 10 * (q + 1)

RoundAll(a) == [i \in DOMAIN a |-> Round2(a[i])]

\* ClampNegative left out.
KeepNegative(a) == a

\* a[a < 0] = 0
ClampNegative(a) == [i \in DOMAIN a |-> IF a[i] < 0 THEN 0 ELSE a[i]]

\* StoreU16 for an array of dtype 'U8'.
StoreU8(s) == IF Len(s) <= 8 THEN s ELSE SubSeq(s, 1, 8)

\* Storing a string in an array of dtype 'U16' keeps at most 16 characters.
StoreU16(s) ==
    IF Len(s) <= MultipleLinesWidth THEN s ELSE SubSeq(s, 1, MultipleLinesWidth)

(***************************************************************************)
(* The derived columns.                                                    *)
(***************************************************************************)
\* The loop that fills multiple_lines; draws holds the outcomes of the
\* np.random.choice(['No', 'Yes']) calls in the order the loop makes them.
MultipleLines(phone_service, draws) ==
    [i \in DOMAIN phone_service |->
        IF phone_service[i] = "No"
        THEN StoreU16("No phone service")
        ELSE StoreU16(draws[Rank(MaskEq(phone_service, "Yes"), i)])]

MonthlyCharges(base, internet_service, fiberDraws, noDraws) ==
    LET fiber == MaskEq(internet_service, "Fiber optic")
        none == MaskEq(internet_service, "No")
        a1 == MaskedAdd(base, fiber, fiberDraws)
        a2 == MaskedSub(a1, none, noDraws)
    IN  RoundAll(a2)

TotalCharges(monthly_charges, tenure, noise) ==
    LET t0 == [i \in DOMAIN monthly_charges |-> monthly_charges[i] * tenure[i]]
        t1 == [i \in DOMAIN t0 |-> t0[i] + noise[i]]
        t2 == ClampNegative(t1)
    IN  RoundAll(t2)

\* ChurnProb with the result clamped at 0.
ChurnProbClamped(contract, tenure, monthly_charges, tech_support) ==
    LET p0 == Zeros(Len(contract))
        p1 == AddWhere(p0, MaskEq(contract, "Month-to-month"), MonthToMonthAdj)
        p2 == AddWhere(p1, MaskLt(tenure, LowTenureLimit), LowTenureAdj)
        p3 == AddWhere(p2, MaskGt(monthly_charges, HighChargeLimit), HighChargeAdj)
        p4 == AddWhere(p3, MaskEq(tech_support, "No"), NoTechSupportAdj)
        p5 == AddWhere(p4, MaskEq(contract, "Two year"), 0 - TwoYearAdj)
    IN  ClampNegative(p5)

ChurnProb(contract, tenure, monthly_charges, tech_support) ==
    LET p0 == Zeros(Len(contract))
        p1 == AddWhere(p0, MaskEq(contract, "Month-to-month"), MonthToMonthAdj)
        p2 == AddWhere(p1, MaskLt(tenure, LowTenureLimit), LowTenureAdj)
        p3 == AddWhere(p2, MaskGt(monthly_charges, HighChargeLimit), HighChargeAdj)
        p4 == AddWhere(p3, MaskEq(tech_support, "No"), NoTechSupportAdj)
        p5 == AddWhere(p4, MaskEq(contract, "Two year"), 0 - TwoYearAdj)
    IN  p5

\* (np.random.rand(n) < churn_prob).astype(int)
Churn(u, churn_prob) == [i \in DOMAIN churn_prob |-> IF u[i] < churn_prob[i] THEN 1 ELSE 0]


\* The dict given to pd.DataFrame, in insertion order: <<column name, array>>.
\* TableSpec without its last entry.
TableSpecNoChurn(a) == <<
    <<"gender", a.gender>>,
    <<"SeniorCitizen", a.senior_citizen>>,
    <<"Partner", a.partner>>,
    <<"Dependents", a.dependents>>,
    <<"tenure", a.tenure>>,
    <<"PhoneService", a.phone_service>>,
    <<"MultipleLines", a.multiple_lines>>,
    <<"InternetService", a.internet_service>>,
    <<"OnlineSecurity", a.online_security>>,
    <<"OnlineBackup", a.online_backup>>,
    <<"DeviceProtection", a.device_protection>>,
    <<"TechSupport", a.tech_support>>,
    <<"StreamingTV", a.streaming_tv>>,
    <<"StreamingMovies", a.streaming_movies>>,
    <<"Contract", a.contract>>,
    <<"PaperlessBilling", a.paperless_billing>>,
    <<"PaymentMethod", a.payment_method>>,
    <<"MonthlyCharges", a.monthly_charges>>,
    <<"TotalCharges", a.total_charges>> >>

TableSpec(a) == <<
    <<"gender", a.gender>>,
    <<"SeniorCitizen", a.senior_citizen>>,
    <<"Partner", a.partner>>,
    <<"Dependents", a.dependents>>,
    <<"tenure", a.tenure>>,
    <<"PhoneService", a.phone_service>>,
    <<"MultipleLines", a.multiple_lines>>,
    <<"InternetService", a.internet_service>>,
    <<"OnlineSecurity", a.online_security>>,
    <<"OnlineBackup", a.online_backup>>,
    <<"DeviceProtection", a.device_protection>>,
    <<"TechSupport", a.tech_support>>,
    <<"StreamingTV", a.streaming_tv>>,
    <<"StreamingMovies", a.streaming_movies>>,
    <<"Contract", a.contract>>,
    <<"PaperlessBilling", a.paperless_billing>>,
    <<"PaymentMethod", a.payment_method>>,
    <<"MonthlyCharges", a.monthly_charges>>,
    <<"TotalCharges", a.total_charges>>,
    <<"Churn", a.churn>> >>

NoData == [built |-> FALSE, columns |-> <<>>, rows |-> <<>>]

\* pd.DataFrame(dict) raises ValueError unless all arrays have one length.
DataFrameError(cols) ==
    IF \A c \in DOMAIN cols : Len(cols[c][2]) = Len(cols[1][2])
    THEN "none" ELSE "ValueError"

\* pd.DataFrame(dict): the columns in insertion order, one row per element.
DataFrame(cols) ==
    [built   |-> TRUE,
     columns |-> [c \in DOMAIN cols |-> cols[c][1]],
     rows    |-> [r \in 1..Len(cols[1][2]) |-> [c \in DOMAIN cols |-> cols[c][2][r]]]]

\* data.to_csv(path, index=False): a header line, then one line per row.
ToCsv(d) == [header |-> d.columns, lines |-> d.rows]

(***************************************************************************)
(* Paths and the file system.                                              *)
(***************************************************************************)
\* output_path = None
NonePath == <<"">>

\* os.path.dirname(__file__)
ScriptDir == <<"src">>

\* os.path.join(os.path.dirname(__file__), '..', 'data', 'customer_churn_data.csv')
DefaultPath == ScriptDir \o <<"..", "data", "customer_churn_data.csv">>

\* os.path.dirname(p): everything before the last component ('' for a bare name)
Dirname(p) == SubSeq(p, 1, Len(p) - 1)

\* The directory entry a path names, ".." components followed.
RECURSIVE Resolve(_)
Resolve(p) ==
    IF p = <<>> THEN <<>>
    ELSE LET r == Resolve(Dirname(p))
             c == p[Len(p)]
         IN  IF c = ".." THEN Dirname(r) ELSE Append(r, c)

\* os.path.isdir(p); the empty string names nothing.
IsDir(f, p) == p # <<>> /\ Resolve(p) \in f.dirs

\* os.path.exists(p)
Exists(f, p) == p # <<>> /\ (Resolve(p) \in f.dirs \/ Resolve(p) \in DOMAIN f.files)

\* os.mkdir(name)
Mkdir(f, name) ==
    IF name = <<>> THEN [fs |-> f, err |-> "FileNotFoundError"]
    ELSE IF Exists(f, name) THEN [fs |-> f, err |-> "FileExistsError"]
    ELSE IF Resolve(Dirname(name)) \notin f.dirs THEN [fs |-> f, err |-> "FileNotFoundError"]
    ELSE IF Resolve(Dirname(name)) \in f.unwritable THEN [fs |-> f, err |-> "PermissionError"]
    ELSE [fs |-> [f EXCEPT !.dirs = @ \cup {Resolve(name)}], err |-> "none"]

\* os.makedirs(name, exist_ok=True): the missing ancestors first, then the
\* directory itself; an error of the last mkdir is dropped when the name is
\* a directory.
RECURSIVE MakeDirs(_, _)
MakeDirs(f, name) ==
    LET head == Dirname(name)
        r1 == IF head # <<>> /\ ~Exists(f, head)
              THEN MakeDirs(f, head)
              ELSE [fs |-> f, err |-> "none"]
    IN  IF r1.err \notin {"none", "FileExistsError"} THEN r1
        ELSE LET r2 == Mkdir(r1.fs, name)
             IN  IF r2.err # "none" /\ IsDir(r1.fs, name)
                 THEN [fs |-> r1.fs, err |-> "none"]
                 ELSE r2

\* WriteFile that leaves a file that already exists as it is.
WriteFileKeepOld(f, path, content) ==
    IF Resolve(path) \in DOMAIN f.files THEN [fs |-> f, err |-> "none"]
    ELSE [fs |-> [f EXCEPT !.files =
                    [q \in DOMAIN f.files \cup {Resolve(path)} |->
                        IF q = Resolve(path) THEN content ELSE f.files[q]]],
          err |-> "none"]

\* open(path, 'w') and the write of the whole text: the file is created or
\* replaced.
WriteFile(f, path, content) ==
    IF path = <<>> \/ Resolve(Dirname(path)) \notin f.dirs
    THEN [fs |-> f, err |-> "FileNotFoundError"]
    ELSE IF Resolve(path) \in f.dirs
    THEN [fs |-> f, err |-> "IsADirectoryError"]
    ELSE IF Resolve(path) \notin DOMAIN f.files /\ Resolve(Dirname(path)) \in f.unwritable
    THEN [fs |-> f, err |-> "PermissionError"]
    ELSE [fs |-> [f EXCEPT !.files =
                    [q \in DOMAIN f.files \cup {Resolve(path)} |->
                        IF q = Resolve(path) THEN content ELSE f.files[q]]],
          err |-> "none"]


(***************************************************************************)
(* The state when generate_customer_churn_data is called.                  *)
(***************************************************************************)
NoArrays ==
    [gender |-> <<>>, senior_citizen |-> <<>>, partner |-> <<>>, dependents |-> <<>>,
     tenure |-> <<>>, phone_service |-> <<>>, multiple_lines |-> <<>>,
     internet_service |-> <<>>, online_security |-> <<>>, online_backup |-> <<>>,
     device_protection |-> <<>>, tech_support |-> <<>>, streaming_tv |-> <<>>,
     streaming_movies |-> <<>>, contract |-> <<>>, paperless_billing |-> <<>>,
     payment_method |-> <<>>, monthly_charges |-> <<>>, total_charges |-> <<>>,
     churn_prob |-> <<>>, churn |-> <<>>]

\* What a file left by an earlier run holds.
OldContent == [header |-> <<"old">>, lines |-> <<>>]

\* Outcome number k of np.random.choice(values, n): the values in turn,
\* starting after the k-th.
Cycle(values, n, k) == [i \in 1..n |-> values[((i - 1 + k) % Len(values)) + 1]]

\* The path the file is written to.
Destination(path) == IF path = NonePath THEN DefaultPath ELSE path

NoDraws ==
    [multiple_lines |-> <<>>, base |-> <<>>, fiber |-> <<>>, nointernet |-> <<>>,
     noise |-> <<>>, u |-> <<>>]

\* The values S lie in the support of the distributions the code draws from.
InSupport(S) ==
    /\ S.tenure \subseteq TenureLow..(TenureHigh - 1)
    /\ S.phone \subseteq Range(YesNo)
    /\ S.lines \subseteq Range(NoYes)
    /\ S.internet \subseteq Range(InternetValues)
    /\ S.tech \subseteq Range(AddOnValues)
    /\ S.contract \subseteq Range(ContractValues)
    /\ \A b \in S.base : BaseChargeLow <= b /\ b < BaseChargeHigh
    /\ \A b \in S.fiber : FiberAdjLow <= b /\ b < FiberAdjHigh
    /\ \A b \in S.nointernet : NoInternetAdjLow <= b /\ b < NoInternetAdjHigh
    /\ \A u \in S.u : 0 <= u /\ u < 100
    /\ S.shift \subseteq Nat

\* The calls the model starts from: the size argument among `sizes`, the
\* path among `paths`, the file system varied or not, and the values S
\* each draw takes its outcomes from.
InitWith(sizes, paths, fsVaried, S) ==
    /\ num_samples \in sizes
    /\ output_path \in paths
    /\ InSupport(S)
    /\ rng = S
    /\ drawn = NoDraws
    /\ LET d == Resolve(Dirname(Destination(output_path)))
       IN  \E have \in (IF fsVaried THEN 0..Len(d) ELSE {0}),
              locked \in (IF fsVaried THEN {{}, {<<>>}, {d}} ELSE {{}}),
              old \in (IF fsVaried THEN BOOLEAN ELSE {FALSE}) :
              /\ old => have = Len(d)
              /\ fs = [dirs |-> {<<>>, ScriptDir} \cup {SubSeq(d, 1, j) : j \in 0..have},
                       files |-> IF old
                                 THEN [q \in {Resolve(Destination(output_path))} |-> OldContent]
                                 ELSE [q \in {} |-> OldContent],
                       unwritable |-> locked]
    /\ arr = NoArrays
    /\ data = NoData
    /\ log = <<>>
    /\ pc = "start"
    /\ error = "none"
    /\ writes = 0
    /\ fs0 = fs

(***************************************************************************)
(* The statements of generate_customer_churn_data, in order.               *)
(***************************************************************************)
N == num_samples.val

Raise(e) ==
    /\ pc' = "failed"
    /\ error' = e

\* logging.info(f"Generating {num_samples} ...")
LogStart ==
    /\ pc = "start"
    /\ log' = Append(log, [event |-> "start", num_samples |-> num_samples, path |-> <<>>])
    /\ pc' = "demographics"
    /\ UNCHANGED <<num_samples, output_path, rng, drawn, arr, data, fs, error, writes, fs0>>

\* gender, senior_citizen, partner, dependents; the first draw raises on a
\* size numpy does not accept.
DrawDemographics ==
    /\ pc = "demographics"
    /\ IF SizeError(num_samples) # "none"
       THEN /\ Raise(SizeError(num_samples))
            /\ UNCHANGED arr
       ELSE /\ \E k \in rng.shift :
                 arr' = [arr EXCEPT !.gender = Cycle(GenderValues, N, k),
                                    !.senior_citizen = Cycle(SeniorValues, N, k),
                                    !.partner = Cycle(YesNo, N, k),
                                    !.dependents = Cycle(YesNo, N, k + 1)]
            /\ pc' = "tenure"
            /\ UNCHANGED error
    /\ UNCHANGED <<num_samples, output_path, rng, drawn, data, fs, log, writes, fs0>>

\* tenure = np.random.randint(1, 72, num_samples)
DrawTenure ==
    /\ pc = "tenure"
    /\ \E t \in Draw(rng.tenure, N) : arr' = [arr EXCEPT !.tenure = t]
    /\ pc' = "phone"
    /\ UNCHANGED <<num_samples, output_path, rng, drawn, data, fs, log, error, writes, fs0>>

\* phone_service = np.random.choice(['Yes', 'No'], num_samples)
DrawPhoneService ==
    /\ pc = "phone"
    /\ \E ph \in Draw(rng.phone, N) : arr' = [arr EXCEPT !.phone_service = ph]
    /\ pc' = "lines"
    /\ UNCHANGED <<num_samples, output_path, rng, drawn, data, fs, log, error, writes, fs0>>

\* multiple_lines = np.empty(num_samples, dtype='U16') and the loop over it,
\* which draws once for each record with phone service
DeriveMultipleLines ==
    /\ pc = "lines"
    /\ \E ln \in Draw(rng.lines, CountTrue(MaskEq(arr.phone_service, "Yes"))) :
          /\ arr' = [arr EXCEPT !.multiple_lines = MultipleLines(arr.phone_service, ln)]
          /\ drawn' = [drawn EXCEPT !.multiple_lines = ln]
    /\ pc' = "internet"
    /\ UNCHANGED <<num_samples, output_path, rng, data, fs, log, error, writes, fs0>>

\* internet_service = np.random.choice(['DSL', 'Fiber optic', 'No'], ...)
DrawInternetService ==
    /\ pc = "internet"
    /\ \E s \in Draw(rng.internet, N) : arr' = [arr EXCEPT !.internet_service = s]
    /\ pc' = "addons"
    /\ UNCHANGED <<num_samples, output_path, rng, drawn, data, fs, log, error, writes, fs0>>

\* online_security ... streaming_movies
DrawAddOns ==
    /\ pc = "addons"
    /\ \E k \in rng.shift, ts \in Draw(rng.tech, N) :
          arr' = [arr EXCEPT !.online_security = Cycle(AddOnValues, N, k),
                             !.online_backup = Cycle(AddOnValues, N, k + 1),
                             !.device_protection = Cycle(AddOnValues, N, k + 2),
                             !.tech_support = ts,
                             !.streaming_tv = Cycle(AddOnValues, N, k),
                             !.streaming_movies = Cycle(AddOnValues, N, k + 1)]
    /\ pc' = "contract"
    /\ UNCHANGED <<num_samples, output_path, rng, drawn, data, fs, log, error, writes, fs0>>

\* contract, paperless_billing, payment_method
DrawContractBilling ==
    /\ pc = "contract"
    /\ \E k \in rng.shift, c \in Draw(rng.contract, N) :
          arr' = [arr EXCEPT !.contract = c,
                             !.paperless_billing = Cycle(YesNo, N, k),
                             !.payment_method = Cycle(PaymentValues, N, k)]
    /\ pc' = "monthly"
    /\ UNCHANGED <<num_samples, output_path, rng, drawn, data, fs, log, error, writes, fs0>>

\* monthly_charges: the base draw, the two masked adjustments (each draws one
\* value per selected record), the rounding
ComputeMonthlyCharges ==
    /\ pc = "monthly"
    /\ \E base \in Draw(rng.base, N),
          fd \in Draw(rng.fiber, CountTrue(MaskEq(arr.internet_service, "Fiber optic"))),
          nd \in Draw(rng.nointernet, CountTrue(MaskEq(arr.internet_service, "No"))) :
          /\ arr' = [arr EXCEPT !.monthly_charges =
                        MonthlyCharges(base, arr.internet_service, fd, nd)]
          /\ drawn' = [drawn EXCEPT !.base = base, !.fiber = fd, !.nointernet = nd]
    /\ pc' = "total"
    /\ UNCHANGED <<num_samples, output_path, rng, data, fs, log, error, writes, fs0>>

\* total_charges: product, noise, clamp, rounding
ComputeTotalCharges ==
    /\ pc = "total"
    /\ \E noise \in Draw(rng.noise, N) :
          /\ arr' = [arr EXCEPT !.total_charges =
                        TotalCharges(arr.monthly_charges, arr.tenure, noise)]
          /\ drawn' = [drawn EXCEPT !.noise = noise]
    /\ pc' = "prob"
    /\ UNCHANGED <<num_samples, output_path, rng, data, fs, log, error, writes, fs0>>

\* churn = np.zeros(...); churn_prob = np.zeros(...) and its five adjustments
ComputeChurnProb ==
    /\ pc = "prob"
    /\ arr' = [arr EXCEPT !.churn = Zeros(N),
                          !.churn_prob = ChurnProb(arr.contract, arr.tenure,
                                                   arr.monthly_charges, arr.tech_support)]
    /\ pc' = "churn"
    /\ UNCHANGED <<num_samples, output_path, rng, drawn, data, fs, log, error, writes, fs0>>

\* churn = (np.random.rand(num_samples) < churn_prob).astype(int)
DrawChurn ==
    /\ pc = "churn"
    /\ \E u \in Draw(rng.u, N) :
          /\ arr' = [arr EXCEPT !.churn = Churn(u, arr.churn_prob)]
          /\ drawn' = [drawn EXCEPT !.u = u]
    /\ pc' = "assemble"
    /\ UNCHANGED <<num_samples, output_path, rng, data, fs, log, error, writes, fs0>>

\* data = pd.DataFrame({...})
AssembleTable ==
    /\ pc = "assemble"
    /\ IF DataFrameError(TableSpec(arr)) # "none"
       THEN /\ Raise(DataFrameError(TableSpec(arr)))
            /\ UNCHANGED data
       ELSE /\ data' = DataFrame(TableSpec(arr))
            /\ pc' = "resolve"
            /\ UNCHANGED error
    /\ UNCHANGED <<num_samples, output_path, rng, drawn, arr, fs, log, writes, fs0>>

\* if output_path is None: output_path = <the default>
ResolvePath ==
    /\ pc = "resolve"
    /\ output_path' = IF output_path = NonePath THEN DefaultPath ELSE output_path
    /\ pc' = "makedirs"
    /\ UNCHANGED <<num_samples, rng, drawn, arr, data, fs, log, error, writes, fs0>>

\* output_dir = os.path.dirname(output_path); os.makedirs(output_dir, exist_ok=True)
MakeOutputDir ==
    /\ pc = "makedirs"
    /\ LET r == MakeDirs(fs, Dirname(output_path))
       IN  IF r.err # "none"
           THEN /\ Raise(r.err)
                /\ UNCHANGED fs
           ELSE /\ fs' = r.fs
                /\ pc' = "write"
                /\ UNCHANGED error
    /\ UNCHANGED <<num_samples, output_path, rng, drawn, arr, data, log, writes, fs0>>

\* WriteCsv with the completion log emitted before the write.
WriteCsvLogsFirst ==
    /\ pc = "write"
    /\ log' = Append(log, [event |-> "saved", num_samples |-> num_samples, path |-> output_path])
    /\ LET r == WriteFile(fs, output_path, ToCsv(data))
       IN  IF r.err # "none"
           THEN /\ Raise(r.err)
                /\ UNCHANGED <<fs, writes>>
           ELSE /\ fs' = r.fs
                /\ writes' = writes + 1
                /\ pc' = "done"
                /\ UNCHANGED error
    /\ UNCHANGED <<num_samples, output_path, rng, drawn, arr, data, fs0>>

\* data.to_csv(output_path, index=False)
WriteCsv ==
    /\ pc = "write"
    /\ LET r == WriteFile(fs, output_path, ToCsv(data))
       IN  IF r.err # "none"
           THEN /\ Raise(r.err)
                /\ UNCHANGED <<fs, writes>>
           ELSE /\ fs' = r.fs
                /\ writes' = writes + 1
                /\ pc' = "logsaved"
                /\ UNCHANGED error
    /\ UNCHANGED <<num_samples, output_path, rng, drawn, arr, data, log, fs0>>

\* logging.info(f"Synthetic data saved to '{output_path}'")
LogSaved ==
    /\ pc = "logsaved"
    /\ log' = Append(log, [event |-> "saved", num_samples |-> num_samples, path |-> output_path])
    /\ pc' = "done"
    /\ UNCHANGED <<num_samples, output_path, rng, drawn, arr, data, fs, error, writes, fs0>>

Next ==
    \/ LogStart
    \/ DrawDemographics
    \/ DrawTenure
    \/ DrawPhoneService
    \/ DeriveMultipleLines
    \/ DrawInternetService
    \/ DrawAddOns
    \/ DrawContractBilling
    \/ ComputeMonthlyCharges
    \/ ComputeTotalCharges
    \/ ComputeChurnProb
    \/ DrawChurn
    \/ AssembleTable
    \/ ResolvePath
    \/ MakeOutputDir
    \/ WriteCsv
    \/ LogSaved

(***************************************************************************)
(* Specifications.  Spec varies the arguments and the file system; the     *)
(* other two vary the draws a group of columns depends on.                 *)
(***************************************************************************)
Sizes(lo, hi) == {[kind |-> "int", val |-> v] : v \in lo..hi}

Paths == {NonePath, <<"out", "test.csv">>, <<"test.csv">>, <<"a", "b", "test.csv">>}

CallDraws ==
    [shift |-> {0, 1}, tenure |-> {12}, phone |-> {"Yes", "No"}, lines |-> {"No", "Yes"},
     internet |-> {"DSL"}, base |-> {50000}, fiber |-> {10000}, nointernet |-> {10000},
     noise |-> {0}, tech |-> {"Yes"}, contract |-> {"One year"}, u |-> {50}]

Init ==
    InitWith(Sizes(-1, MaxSamples) \cup {[kind |-> "float", val |-> 2]}, Paths, TRUE, CallDraws)

Spec == Init /\ [][Next]_vars


\* The draws the churn label depends on.
ChurnDraws ==
    [shift |-> {0}, tenure |-> {11, 12}, phone |-> {"Yes"}, lines |-> {"No"},
     internet |-> {"DSL"}, base |-> {80005, 80006}, fiber |-> {10000}, nointernet |-> {10000},
     noise |-> {0}, tech |-> {"No", "No internet service"},
     contract |-> {"Month-to-month", "One year", "Two year"}, u |-> {0, 85}]

InitChurn == InitWith(Sizes(1, MaxSamples), {<<"out", "test.csv">>}, FALSE, ChurnDraws)

SpecChurn == InitChurn /\ [][Next]_vars

\* The draws the two charges columns depend on.
ChargesDraws ==
    [shift |-> {0}, tenure |-> {1, 71}, phone |-> {"Yes"}, lines |-> {"No"},
     internet |-> {"DSL", "Fiber optic", "No"}, base |-> {20000, 119999},
     fiber |-> {10000, 29999}, nointernet |-> {10000, 19999},
     noise |-> {-9999999, 5}, tech |-> {"Yes"}, contract |-> {"One year"}, u |-> {50}]

InitCharges == InitWith(Sizes(1, MaxSamples), {<<"out", "test.csv">>}, FALSE, ChargesDraws)

SpecCharges == InitCharges /\ [][Next]_vars


(***************************************************************************)
(* Properties.                                                             *)
(***************************************************************************)
SizeOk == num_samples.kind = "int" /\ N >= 0

\* The file the call writes.
DestFile == Resolve(Destination(output_path))

\* The column names of the table in section 3 of the specification, in the
\* order listed there.
Section3Columns == <<
    "gender", "seniorCitizen", "partner", "dependents", "phoneService",
    "paperlessBilling", "tenureMonths", "multipleLines", "internetService",
    "onlineSecurity", "onlineBackup", "deviceProtection", "techSupport",
    "streamingTV", "streamingMovies", "contract", "paymentMethod",
    "monthlyCharges", "totalCharges", "churn">>

\* The column names of the public churn-dataset schema.
DatasetColumns == <<
    "gender", "SeniorCitizen", "Partner", "Dependents", "tenure", "PhoneService",
    "MultipleLines", "InternetService", "OnlineSecurity", "OnlineBackup",
    "DeviceProtection", "TechSupport", "StreamingTV", "StreamingMovies",
    "Contract", "PaperlessBilling", "PaymentMethod", "MonthlyCharges",
    "TotalCharges", "Churn">>

TableHas(names) ==
    /\ data.built =>
          /\ Len(data.rows) = N
          /\ Len(data.columns) = 20
          /\ data.columns = names
          /\ \A r \in DOMAIN data.rows : Len(data.rows[r]) = 20
    /\ writes > 0 =>
          /\ fs.files[DestFile].header = names
          /\ Len(fs.files[DestFile].lines) = N

\* C1, as stated: for every sampleCount >= 1 the table assembled and written
\* has sampleCount rows and the 20 columns of section 3, named and ordered
\* as listed there.
C1_Section3Header == (SizeOk /\ N >= 1) => TableHas(Section3Columns)

\* C1, amended: for every sampleCount >= 1 the table assembled and written
\* has sampleCount rows and 20 columns, named and ordered as in the public
\* dataset schema (gender, SeniorCitizen, Partner, Dependents, tenure, ...).
C1_TableShape == (SizeOk /\ N >= 1) => TableHas(DatasetColumns)

C1_Witness ==
    /\ pc = "done"
    /\ N >= 2
    /\ Len(fs.files[DestFile].lines) = N
    /\ fs.files[DestFile].header[5] = "tenure"

\* The churn probability the adjustments of a record add up to, in hundredths.
ExpectedP(i) ==
      (IF arr.contract[i] = "Month-to-month" THEN 30 ELSE 0)
    + (IF arr.tenure[i] < 12 THEN 20 ELSE 0)
    + (IF arr.monthly_charges[i] > 80000 THEN 15 ELSE 0)
    + (IF arr.tech_support[i] = "No" THEN 20 ELSE 0)
    - (IF arr.contract[i] = "Two year" THEN 30 ELSE 0)

\* C2: every record's churn probability is the unclamped sum of the
\* adjustments that apply to it, and its label is 1 iff its uniform draw is
\* strictly below that probability; so labels are 0 or 1 and a record with
\* p <= 0 is labelled 0.
C2_ChurnRule ==
    /\ \A i \in DOMAIN arr.churn_prob : arr.churn_prob[i] = ExpectedP(i)
    /\ drawn.u # <<>> =>
          \A i \in DOMAIN arr.churn :
             /\ arr.churn[i] \in {0, 1}
             /\ arr.churn[i] = 1 <=> drawn.u[i] < arr.churn_prob[i]
             /\ arr.churn_prob[i] <= 0 => arr.churn[i] = 0
             /\ data.built => data.rows[i][20] = arr.churn[i]

C2_Witness ==
    /\ pc = "done"
    /\ \E i, j \in DOMAIN arr.churn :
          /\ arr.churn_prob[i] = 0 /\ drawn.u[i] = 0 /\ arr.churn[i] = 0
          /\ arr.churn_prob[j] > 0 /\ arr.churn[j] = 1

\* Every adverse condition applies to record i.
AllAdverse(i) ==
    /\ arr.contract[i] = "Month-to-month"
    /\ arr.tenure[i] < 12
    /\ arr.monthly_charges[i] > 80000
    /\ arr.tech_support[i] = "No"

\* C3, as stated: the adverse conditions stack to a probability above 1, and
\* such a record churns whatever its draw is.
C3_StackedExceedsOne ==
    \A i \in DOMAIN arr.churn_prob :
       AllAdverse(i) =>
          /\ arr.churn_prob[i] > 100
          /\ drawn.u # <<>> => arr.churn[i] = 1

\* C3, amended: the probability lies in [-0.30, 0.85]; it is 0.85 exactly
\* when every adverse condition applies, and negative only under a Two year
\* contract; a record with a negative probability never churns.
C3_ProbabilityRange ==
    \A i \in DOMAIN arr.churn_prob :
       /\ arr.churn_prob[i] >= -30
       /\ arr.churn_prob[i] <= 85
       /\ AllAdverse(i) <=> arr.churn_prob[i] = 85
       /\ arr.churn_prob[i] < 0 => arr.contract[i] = "Two year"
       /\ (arr.contract[i] = "Two year" /\ arr.tenure[i] >= 12
             /\ arr.monthly_charges[i] <= 80000) => arr.churn_prob[i] < 0
       /\ (drawn.u # <<>> /\ arr.churn_prob[i] < 0) => arr.churn[i] = 0

C3_Witness ==
    /\ pc = "done"
    /\ \E i, j \in DOMAIN arr.churn :
          /\ arr.churn_prob[i] < 0 /\ drawn.u[i] = 0 /\ arr.churn[i] = 0
          /\ arr.churn_prob[j] = 85 /\ arr.churn[j] = 0

\* C4: multipleLines is "No phone service" exactly for the records without
\* phone service; a record with phone service has "No" or "Yes", the value
\* drawn for it.
C4_MultipleLinesRule ==
    /\ \A i \in DOMAIN arr.multiple_lines :
          /\ arr.multiple_lines[i] = "No phone service" <=> arr.phone_service[i] = "No"
          /\ arr.phone_service[i] = "Yes" =>
                /\ arr.multiple_lines[i] \in {"No", "Yes"}
                /\ arr.multiple_lines[i] =
                      drawn.multiple_lines[Cardinality({j \in 1..i : arr.phone_service[j] = "Yes"})]
    /\ data.built =>
          \A r \in DOMAIN data.rows :
             data.rows[r][7] = "No phone service" <=> data.rows[r][6] = "No"

C4_Witness ==
    /\ pc = "done"
    /\ \E i, j \in DOMAIN arr.multiple_lines :
          /\ arr.phone_service[i] = "No" /\ arr.multiple_lines[i] = "No phone service"
          /\ arr.phone_service[j] = "Yes" /\ arr.multiple_lines[j] = "Yes"

\* x is v rounded to two decimals (values in mills).
IsRounded(x, v) == x % 10 = 0 /\ x - v <= 5 /\ v - x <= 5

\* C5: totalCharges is monthlyCharges * tenure + noise, clamped at 0 and then
\* rounded to two decimals; it is never negative, and both charges have at
\* most two decimals.
C5_TotalCharges ==
    \A i \in DOMAIN arr.total_charges :
       LET raw == arr.monthly_charges[i] * arr.tenure[i] + drawn.noise[i]
       IN  /\ IsRounded(arr.total_charges[i], IF raw < 0 THEN 0 ELSE raw)
           /\ arr.total_charges[i] >= 0
           /\ arr.monthly_charges[i] % 10 = 0

C5_Witness ==
    /\ pc = "done"
    /\ \E i, j \in DOMAIN arr.total_charges :
          /\ arr.monthly_charges[i] * arr.tenure[i] + drawn.noise[i] < 0
          /\ arr.total_charges[i] = 0
          /\ drawn.noise[j] = 5
          /\ arr.total_charges[j] > 0


\* C6, as stated: a sampleCount that is not a positive integer makes the call
\* fail, and nothing is generated, assembled, created or written.
C6_NonPositiveFails ==
    ~(SizeOk /\ N >= 1) =>
       /\ arr = NoArrays
       /\ ~data.built
       /\ fs = fs0
       /\ writes = 0
       /\ pc \in {"start", "demographics", "failed"}
       /\ pc = "failed" => error \in {"ValueError", "TypeError"}

\* C6, amended: a negative or non-integer sampleCount makes the first draw
\* raise (ValueError, TypeError) after the start log, and nothing is
\* generated, assembled, created or written; sampleCount = 0 is accepted:
\* the call generates 20 empty columns and, unless the directory or the
\* file cannot be written, ends with a file that holds the header alone.
C6_InvalidSizeFails ==
    /\ ~SizeOk =>
          /\ arr = NoArrays
          /\ ~data.built
          /\ fs = fs0
          /\ writes = 0
          /\ pc \in {"start", "demographics", "failed"}
          /\ pc = "failed" =>
                /\ error = (IF num_samples.kind = "int" THEN "ValueError" ELSE "TypeError")
                /\ Len(log) = 1 /\ log[1].event = "start"
    /\ (SizeOk /\ N = 0) =>
          /\ pc = "failed" =>
                error \in {"FileNotFoundError", "PermissionError"} /\ data.built
          /\ pc = "done" =>
                /\ error = "none"
                /\ fs.files[DestFile].lines = <<>>
                /\ Len(fs.files[DestFile].header) = 20

C6_Witness ==
    /\ pc = "failed"
    /\ num_samples.kind = "int"
    /\ N < 0
    /\ error = "ValueError"
    /\ Len(log) = 1

\* The directory that contains the destination.
ContainingDir == Resolve(Dirname(Destination(output_path)))

\* C7: whatever the destination (the default, a path whose directory is
\* missing, a bare file name in the current directory), the call makes sure
\* the containing directory exists, without an error when it already does,
\* and then writes the file there.  Stated for the calls no permission
\* stands in the way of.
C7_DirectoryEnsured ==
    (SizeOk /\ fs0.unwritable = {}) =>
       /\ pc # "failed"
       /\ pc \in {"write", "logsaved", "done"} => ContainingDir \in fs.dirs
       /\ pc \in {"logsaved", "done"} => DestFile \in DOMAIN fs.files

\* C8: the start log, with the sample count, comes before any column is
\* generated; the completion log, with the output path, comes only after
\* the file has been written; a call that fails has logged the start and
\* never the completion.
C8_LogOrder ==
    /\ (pc # "start") =>
          /\ Len(log) >= 1
          /\ log[1].event = "start"
          /\ log[1].num_samples = num_samples
    /\ (pc = "start") => (log = <<>> /\ arr = NoArrays)
    /\ Len(log) <= 2
    /\ Len(log) = 2 =>
          /\ log[2].event = "saved"
          /\ log[2].path = output_path
          /\ writes = 1
          /\ DestFile \in DOMAIN fs.files
          /\ pc = "done"
    /\ pc = "done" => Len(log) = 2
    /\ pc = "failed" => (Len(log) = 1 /\ error # "none")

C8_Witness ==
    /\ pc = "failed"
    /\ error = "PermissionError"
    /\ data.built
    /\ ContainingDir \in fs.dirs
    /\ Len(log) = 1

\* Every column of the table has been generated.
AllColumnsGenerated ==
    \A c \in DOMAIN TableSpec(arr) : Len(TableSpec(arr)[c][2]) = N

\* C9: the destination file is written at most once, exactly once in a call
\* that succeeds, and only after the 20 columns are generated and the table
\* assembled; the write replaces the file that was there; until the write,
\* and in a call that fails, the files are as they were.
C9_SingleWrite ==
    /\ writes \in {0, 1}
    /\ pc = "done" => writes = 1
    /\ pc = "failed" => writes = 0
    /\ writes = 0 => fs.files = fs0.files
    /\ writes = 1 =>
          /\ data.built
          /\ AllColumnsGenerated
          /\ Len(data.columns) = 20
          /\ DOMAIN fs.files = DOMAIN fs0.files \cup {DestFile}
          /\ fs.files[DestFile] = ToCsv(data)
          /\ \A q \in DOMAIN fs0.files : q # DestFile => fs.files[q] = fs0.files[q]

C9_Witness ==
    /\ pc = "done"
    /\ writes = 1
    /\ N >= 1
    /\ DestFile \in DOMAIN fs0.files
    /\ fs0.files[DestFile] = OldContent
    /\ fs.files[DestFile] # OldContent

\* The number of records up to i whose internetService is v.
RankAmong(i, v) == Cardinality({j \in 1..i : arr.internet_service[j] = v})

\* C10: monthlyCharges is never negative and is within the bounds of its
\* internetService: [20,120] for DSL, [30,150] for Fiber optic, [0,110] for
\* "No"; a record gets the adjustment drawn for it, once, and no other.
C10_MonthlyBounds ==
    arr.monthly_charges # <<>> =>
       /\ Len(drawn.fiber) = Cardinality({j \in 1..N : arr.internet_service[j] = "Fiber optic"})
       /\ Len(drawn.nointernet) = Cardinality({j \in 1..N : arr.internet_service[j] = "No"})
       /\ \A i \in DOMAIN arr.monthly_charges :
             LET m == arr.monthly_charges[i]
                 s == arr.internet_service[i]
             IN  /\ m >= 0
                 /\ s = "DSL" =>
                       /\ m >= 20000 /\ m <= 120000
                       /\ IsRounded(m, drawn.base[i])
                 /\ s = "Fiber optic" =>
                       /\ m >= 30000 /\ m <= 150000
                       /\ IsRounded(m, drawn.base[i] + drawn.fiber[RankAmong(i, s)])
                 /\ s = "No" =>
                       /\ m >= 0 /\ m <= 110000
                       /\ IsRounded(m, drawn.base[i] - drawn.nointernet[RankAmong(i, s)])

C10_Witness ==
    /\ pc = "done"
    /\ \E i, j \in DOMAIN arr.monthly_charges :
          /\ i < j
          /\ arr.internet_service[i] = "Fiber optic"
          /\ arr.internet_service[j] = "Fiber optic"
          /\ drawn.fiber[1] # drawn.fiber[2]
          /\ drawn.base[i] = drawn.base[j]
          /\ arr.monthly_charges[i] # arr.monthly_charges[j]

====
